---- MODULE Spec2Model ----
(***************************************************************************)
(* A model of streamlit_app.py: the symbol normaliser, the two-stage DCF   *)
(* calculator, the provider cascade behind st.cache_data, the concurrent   *)
(* batch fetcher and the peer-group session cache.                         *)
(*                                                                         *)
(* A Python string is a sequence of one-character strings, so that strip,  *)
(* upper, isdigit, startswith, endswith, slicing and the substring test    *)
(* are computed character by character, as the interpreter computes them.  *)
(***************************************************************************)
EXTENDS Integers, Sequences, FiniteSets, TLC

VARIABLES
  parsed,       \* smart_parse_symbol harness: <<x, f(x), f(f(x)), ...>>
  dcf_in,       \* calculate_dcf harness: the arguments of the call
  dcf_out,      \* calculate_dcf harness: the outcome of the call, or NotCalled
  ak,           \* whether "import akshare as ak" succeeded (ak is not None)
  now,          \* the clock st.cache_data reads, in seconds
  ops,          \* how many top-level calls have been made
  cache_main,   \* st.cache_data store of fetch_main_stock_data: symbol -> entry
  cache_ak,     \* st.cache_data store of fetch_akshare_data: symbol -> entry
  cache_hunter, \* st.cache_data store of fetch_hunter_data_concurrent: arguments -> entry
  pool,         \* the running body of fetch_hunter_data_concurrent and its executor
  runs,         \* history: per cached function and key, the last run of the body
  last,         \* history: the calls of cached functions made by the last operation
  session_state,\* st.session_state: attribute name -> value
  page          \* what the last run of the page script showed, and its inputs

(***************************************************************************)
(* Bounds of the model.                                                    *)
(***************************************************************************)
\* longest purely numeric input
MaxDigits == 6
\* longest input drawn from the mixed alphabet, and longest slice of a name
MaxLetters == 2
\* how many times smart_parse_symbol is applied in a row
MaxApply == 3

(***************************************************************************)
(* 1. Data dictionaries (streamlit_app.py lines 41-68).                    *)
(***************************************************************************)
\* STOCK_MAP.items() in insertion order: <<ticker, display name>>. A character
\* outside ASCII is written as its code point ("U+82F9").
STOCK_MAP ==
  <<
     <<<<"A","A","P","L">>, <<"U+82F9","U+679C">>>>,
     <<<<"M","S","F","T">>, <<"U+5FAE","U+8F6F">>>>,
     <<<<"G","O","O","G">>, <<"U+8C37","U+6B4C">>>>,
     <<<<"A","M","Z","N">>, <<"U+4E9A","U+9A6C","U+900A">>>>,
     <<<<"M","E","T","A">>, <<"M","e","t","a">>>>,
     <<<<"T","S","L","A">>, <<"U+7279","U+65AF","U+62C9">>>>,
     <<<<"N","V","D","A">>, <<"U+82F1","U+4F1F","U+8FBE">>>>,
     <<<<"A","M","D">>, <<"U+8D85","U+5A01","U+534A","U+5BFC","U+4F53">>>>,
     <<<<"T","S","M">>, <<"U+53F0","U+79EF","U+7535">>>>,
     <<<<"A","S","M","L">>, <<"U+963F","U+65AF","U+9EA6">>>>,
     <<<<"B","A","B","A">>, <<"U+963F","U+91CC","U+5DF4","U+5DF4","(","U+7F8E",")">>>>,
     <<<<"P","D","D">>, <<"U+62FC","U+591A","U+591A">>>>,
     <<<<"B","R","K","-","B">>, <<"U+4F2F","U+514B","U+5E0C","U+5C14","U+54C8","U+6492","U+97E6">>>>,
     <<<<"V">>, <<"U+5A01","U+58EB">>>>,
     <<<<"M","A">>, <<"U+4E07","U+4E8B","U+8FBE">>>>,
     <<<<"C","O","S","T">>, <<"U+5F00","U+5E02","U+5BA2">>>>,
     <<<<"J","P","M">>, <<"U+6469","U+6839","U+5927","U+901A">>>>,
     <<<<"J","N","J">>, <<"U+5F3A","U+751F">>>>,
     <<<<"P","G">>, <<"U+5B9D","U+6D01">>>>,
     <<<<"X","O","M">>, <<"U+57C3","U+514B","U+68EE","U+7F8E","U+5B5A">>>>,
     <<<<"K","O">>, <<"U+53EF","U+53E3","U+53EF","U+4E50">>>>,
     <<<<"P","E","P">>, <<"U+767E","U+4E8B">>>>,
     <<<<"M","C","D">>, <<"U+9EA6","U+5F53","U+52B3">>>>,
     <<<<"L","L","Y">>, <<"U+793C","U+6765">>>>,
     <<<<"U","N","H">>, <<"U+8054","U+5408","U+5065","U+5EB7">>>>,
     <<<<"0","7","0","0",".","H","K">>, <<"U+817E","U+8BAF","U+63A7","U+80A1">>>>,
     <<<<"9","9","8","8",".","H","K">>, <<"U+963F","U+91CC","U+5DF4","U+5DF4","(","U+6E2F",")">>>>,
     <<<<"3","6","9","0",".","H","K">>, <<"U+7F8E","U+56E2">>>>,
     <<<<"0","3","8","8",".","H","K">>, <<"U+9999","U+6E2F","U+4EA4","U+6613","U+6240">>>>,
     <<<<"0","9","4","1",".","H","K">>, <<"U+4E2D","U+56FD","U+79FB","U+52A8">>>>,
     <<<<"0","8","8","3",".","H","K">>, <<"U+4E2D","U+56FD","U+6D77","U+6D0B","U+77F3","U+6CB9">>>>,
     <<<<"1","8","1","0",".","H","K">>, <<"U+5C0F","U+7C73","U+96C6","U+56E2">>>>,
     <<<<"1","0","2","4",".","H","K">>, <<"U+5FEB","U+624B">>>>,
     <<<<"1","2","9","9",".","H","K">>, <<"U+53CB","U+90A6","U+4FDD","U+9669">>>>,
     <<<<"0","0","0","5",".","H","K">>, <<"U+6C47","U+4E30","U+63A7","U+80A1">>>>,
     <<<<"6","0","0","5","1","9",".","S","S">>, <<"U+8D35","U+5DDE","U+8305","U+53F0">>>>,
     <<<<"0","0","0","8","5","8",".","S","Z">>, <<"U+4E94","U+7CAE","U+6DB2">>>>,
     <<<<"6","0","0","9","0","0",".","S","S">>, <<"U+957F","U+6C5F","U+7535","U+529B">>>>,
     <<<<"3","0","0","7","5","0",".","S","Z">>, <<"U+5B81","U+5FB7","U+65F6","U+4EE3">>>>,
     <<<<"6","0","0","0","3","6",".","S","S">>, <<"U+62DB","U+5546","U+94F6","U+884C">>>>,
     <<<<"6","0","1","3","1","8",".","S","S">>, <<"U+4E2D","U+56FD","U+5E73","U+5B89">>>>,
     <<<<"6","0","0","1","8","8",".","S","S">>, <<"U+4E2D","U+7164","U+80FD","U+6E90">>>>,
     <<<<"6","0","1","0","8","8",".","S","S">>, <<"U+4E2D","U+56FD","U+795E","U+534E","(","A",")">>>>,
     <<<<"6","0","0","8","8","7",".","S","S">>, <<"U+4F0A","U+5229","U+80A1","U+4EFD">>>>,
     <<<<"6","0","0","5","8","5",".","S","S">>, <<"U+6D77","U+87BA","U+6C34","U+6CE5">>>>,
     <<<<"0","0","2","7","1","4",".","S","Z">>, <<"U+7267","U+539F","U+80A1","U+4EFD">>>>,
     <<<<"6","0","0","0","3","0",".","S","S">>, <<"U+4E2D","U+4FE1","U+8BC1","U+5238">>>>,
     <<<<"0","0","2","5","9","4",".","S","Z">>, <<"U+6BD4","U+4E9A","U+8FEA">>>>,
     <<<<"3","0","0","7","6","0",".","S","Z">>, <<"U+8FC8","U+745E","U+533B","U+7597">>>>,
     <<<<"3","0","0","5","0","2",".","S","Z">>, <<"U+65B0","U+6613","U+76DB">>>>,
     <<<<"6","0","0","5","8","0",".","S","S">>, <<"U+5367","U+9F99","U+7535","U+9A71">>>>,
     <<<<"6","0","0","2","7","6",".","S","S">>, <<"U+6052","U+745E","U+533B","U+836F">>>>
  >>

\* the argument of NAME_TO_TICKER.update (lines 57-61): <<name, ticker>>
NAME_ALIASES ==
  <<
     <<<<"U+817E","U+8BAF">>, <<"0","7","0","0",".","H","K">>>>,
     <<<<"U+8305","U+53F0">>, <<"6","0","0","5","1","9",".","S","S">>>>,
     <<<<"U+5E73","U+5B89">>, <<"6","0","1","3","1","8",".","S","S">>>>,
     <<<<"U+4E2D","U+7164">>, <<"6","0","0","1","8","8",".","S","S">>>>,
     <<<<"U+795E","U+534E">>, <<"6","0","1","0","8","8",".","S","S">>>>,
     <<<<"U+82F9","U+679C">>, <<"A","A","P","L">>>>,
     <<<<"U+5FAE","U+8F6F">>, <<"M","S","F","T">>>>,
     <<<<"U+82F1","U+4F1F","U+8FBE">>, <<"N","V","D","A">>>>,
     <<<<"U+62DB","U+884C">>, <<"6","0","0","0","3","6",".","S","S">>>>,
     <<<<"U+4F0A","U+5229">>, <<"6","0","0","8","8","7",".","S","S">>>>,
     <<<<"U+65B0","U+6613","U+76DB">>, <<"3","0","0","5","0","2",".","S","Z">>>>,
     <<<<"U+5367","U+9F99">>, <<"6","0","0","5","8","0",".","S","S">>>>,
     <<<<"U+5367","U+9F99","U+7535","U+9A71">>, <<"6","0","0","5","8","0",".","S","S">>>>,
     <<<<"U+6052","U+745E","U+533B","U+836F">>, <<"6","0","0","2","7","6",".","S","S">>>>
  >>

\* The keys of a dict given as its items in insertion order
Keys(items) == { items[i][1] : i \in DOMAIN items }

\* d[k] for a dict given as its items (k is a key)
Lookup(items, k) == (CHOOSE i \in DOMAIN items : items[i][1] = k)

\* The dict that results from inserting the pairs one after another: a key keeps
\* the place of its first insertion and the value of its last one (a dict
\* comprehension followed by dict.update)
DictOf(pairs) ==
  LET firsts == { i \in DOMAIN pairs : \A j \in 1..(i - 1) : pairs[j][1] # pairs[i][1] }
      final(k) == CHOOSE i \in DOMAIN pairs :
                   /\ pairs[i][1] = k
                   /\ \A j \in (i + 1)..Len(pairs) : pairs[j][1] # k
      nth(r) == CHOOSE i \in firsts : Cardinality({ j \in firsts : j <= i }) = r
  IN [r \in 1..Cardinality(firsts) |-> <<pairs[nth(r)][1], pairs[final(pairs[nth(r)][1])][2]>>]

\* NAME_TO_TICKER = {v: k for k, v in STOCK_MAP.items()}; NAME_TO_TICKER.update({...})
NAME_TO_TICKER ==
  DictOf([i \in DOMAIN STOCK_MAP |-> <<STOCK_MAP[i][2], STOCK_MAP[i][1]>>] \o NAME_ALIASES)

(***************************************************************************)
(* 2. str methods used by smart_parse_symbol.                              *)
(***************************************************************************)
Digits == {"0","1","2","3","4","5","6","7","8","9"}

Whitespace == {" "}

LowerCase == <<"a","b","c","d","e","f","g","h","i","j","k","l","m",
               "n","o","p","q","r","s","t","u","v","w","x","y","z">>

UpperCase == <<"A","B","C","D","E","F","G","H","I","J","K","L","M",
               "N","O","P","Q","R","S","T","U","V","W","X","Y","Z">>

\* str.upper() of one character: cased letters change, everything else stays
UpperChar(c) ==
  IF \E i \in DOMAIN LowerCase : LowerCase[i] = c
  THEN UpperCase[CHOOSE i \in DOMAIN LowerCase : LowerCase[i] = c]
  ELSE c

\* str.upper()
Upper(s) == [i \in DOMAIN s |-> UpperChar(s[i])]

\* str.strip(): leading and trailing whitespace removed
RECURSIVE LStrip(_)
LStrip(s) == IF s # << >> /\ Head(s) \in Whitespace THEN LStrip(Tail(s)) ELSE s

RECURSIVE RStrip(_)
RStrip(s) ==
  IF s # << >> /\ s[Len(s)] \in Whitespace THEN RStrip(SubSeq(s, 1, Len(s) - 1)) ELSE s

Strip(s) == RStrip(LStrip(s))

\* str.isdigit(): at least one character, and all of them digits
IsDigit(s) == s # << >> /\ \A i \in DOMAIN s : s[i] \in Digits

\* s.startswith(p)
StartsWith(s, p) == Len(s) >= Len(p) /\ SubSeq(s, 1, Len(p)) = p

\* s.endswith(p)
EndsWith(s, p) == Len(s) >= Len(p) /\ SubSeq(s, Len(s) - Len(p) + 1, Len(s)) = p

\* a in b, for strings: a occurs in b as a contiguous slice
Contains(b, a) == \E i \in 0..(Len(b) - Len(a)) : SubSeq(b, i + 1, i + Len(a)) = a

SS == <<".","S","S">>
SZ == <<".","S","Z">>
HK == <<".","H","K">>

(***************************************************************************)
(* 3. smart_parse_symbol (lines 71-82).                                    *)
(***************************************************************************)
\* name_lookup falls through to line 76 with NoHit, and returns <<ticker>> otherwise
NoHit == << >>

\* The substring scan returning the matched name instead of its ticker
name_lookup_returns_name(clean) ==
  IF clean \in Keys(NAME_TO_TICKER) THEN <<NAME_TO_TICKER[Lookup(NAME_TO_TICKER, clean)][2]>>
  ELSE LET hits == { i \in DOMAIN NAME_TO_TICKER : Contains(NAME_TO_TICKER[i][1], clean) }
       IN IF hits = {} THEN NoHit
          ELSE <<NAME_TO_TICKER[CHOOSE i \in hits : \A j \in hits : i <= j][1]>>

\* lines 73-75: the exact lookup, then the first name (in insertion order) that
\* contains the input
name_lookup(clean) ==
  IF clean \in Keys(NAME_TO_TICKER) THEN <<NAME_TO_TICKER[Lookup(NAME_TO_TICKER, clean)][2]>>
  ELSE LET hits == { i \in DOMAIN NAME_TO_TICKER : Contains(NAME_TO_TICKER[i][1], clean) }
       IN IF hits = {} THEN NoHit
          ELSE <<NAME_TO_TICKER[CHOOSE i \in hits : \A j \in hits : i <= j][2]>>

\* The numeric rules with the leading-zero test of the five-digit rule left out
numeric_rules_no_leading_zero_test(code) ==
  IF IsDigit(code)
  THEN IF Len(code) = 6 /\ StartsWith(code, <<"6">>) THEN code \o SS
       ELSE IF Len(code) = 6 /\ (StartsWith(code, <<"0">>) \/ StartsWith(code, <<"3">>))
            THEN code \o SZ
       ELSE IF Len(code) = 4 THEN code \o HK
       ELSE IF Len(code) = 5 THEN Tail(code) \o HK
       ELSE code
  ELSE code

\* lines 77-82: the exchange suffix of a purely numeric code
numeric_rules(code) ==
  IF IsDigit(code)
  THEN IF Len(code) = 6 /\ StartsWith(code, <<"6">>) THEN code \o SS
       ELSE IF Len(code) = 6 /\ (StartsWith(code, <<"0">>) \/ StartsWith(code, <<"3">>))
            THEN code \o SZ
       ELSE IF Len(code) = 4 THEN code \o HK
       ELSE IF Len(code) = 5 /\ StartsWith(code, <<"0">>) THEN Tail(code) \o HK
       ELSE code
  ELSE code

smart_parse_symbol(user_input) ==
  LET clean == Strip(user_input)
      hit == name_lookup(clean)
  IN IF hit # NoHit THEN hit[1] ELSE numeric_rules(Upper(clean))

(***************************************************************************)
(* The inputs smart_parse_symbol is applied to.                            *)
(***************************************************************************)
\* the digits the numeric inputs are made of: one for each leading-digit rule
\* ('6', '0', '3') and one ('5') that no rule names
InputDigits == {"0", "3", "5", "6"}

\* letters that occur in display names ("Meta", "(A)"), their other case, a
\* letter of no name, a digit and a blank
InputLetters == {"m", "M", "a", "A", "e", "t", "v", "(", "6", " "}

StringsUpTo(alphabet, n) == UNION { [1..k -> alphabet] : k \in 0..n }

\* every slice of at most n characters of s
Slices(s, n) ==
  UNION { { SubSeq(s, i, i + k - 1) : i \in 1..(Len(s) - k + 1) } : k \in 1..n }

ParseInputs ==
  StringsUpTo(InputDigits, MaxDigits)
    \cup StringsUpTo(InputLetters, MaxLetters)
    \cup Keys(STOCK_MAP)
    \cup Keys(NAME_TO_TICKER)
    \cup UNION { Slices(NAME_TO_TICKER[i][1], MaxLetters) : i \in DOMAIN NAME_TO_TICKER }

(***************************************************************************)
(* 4. calculate_dcf (lines 83-92).                                         *)
(*                                                                         *)
(* A Python float is modelled by the exact rational <<numerator,           *)
(* denominator>> (denominator > 0, lowest terms): the claims about the     *)
(* function are about the sign of its result and about the division that   *)
(* fails, and on the inputs drawn here neither depends on rounding.        *)
(***************************************************************************)
Abs(n) == IF n < 0 THEN -n ELSE n

RECURSIVE Gcd(_, _)
Gcd(a, b) == IF b = 0 THEN a ELSE Gcd(b, a % b)

Rat(n, d) ==
  LET g == Gcd(Abs(n), Abs(d))
      s == IF d < 0 THEN -1 ELSE 1
  IN <<s * (n \div g), s * (d \div g)>>

Zero == <<0, 1>>
One == <<1, 1>>

RAdd(a, b) ==
  LET l == (a[2] \div Gcd(a[2], b[2])) * b[2]
  IN Rat(a[1] * (l \div a[2]) + b[1] * (l \div b[2]), l)

RSub(a, b) == RAdd(a, <<-b[1], b[2]>>)

RMul(a, b) ==
  LET g1 == Gcd(Abs(a[1]), b[2])
      g2 == Gcd(Abs(b[1]), a[2])
  IN Rat((a[1] \div g1) * (b[1] \div g2), (a[2] \div g2) * (b[2] \div g1))

\* a / b, for b # 0
RDiv(a, b) == RMul(a, Rat(b[2], b[1]))

\* a ** i for a natural i, by squaring
RECURSIVE RPow(_, _)
RPow(a, i) ==
  IF i = 0 THEN One
  ELSE IF i % 2 = 0 THEN LET h == RPow(a, i \div 2) IN RMul(h, h)
  ELSE RMul(a, RPow(a, i - 1))

RLeq(a, b) == a[1] * b[2] <= b[1] * a[2]

RMax(a, b) == IF RLeq(a, b) THEN b ELSE a

RMin(a, b) == IF RLeq(a, b) THEN a ELSE b

\* the defaults of calculate_dcf's signature: terminal_rate=0.03, years=10
TERMINAL_RATE == Rat(3, 100)

YEARS == 10

\* what a call ends with: a returned number, or a raised exception
Returned(v) == [kind |-> "value", value |-> v]

Raised(e) == [kind |-> e, value |-> Zero]

NotCalled == [kind |-> "NotCalled", value |-> Zero]

\* The sum of the entries that the rounds first..final of the loop of lines 86-89
\* append to future_flows (the sum of exact rationals does not depend on the order
\* of the additions, and is taken by halves)
RECURSIVE future_flows_sum(_, _, _, _, _)
future_flows_sum(fcf, growth_rate, discount_rate, first, final) ==
  IF first > final THEN Zero
  ELSE IF first = final
  THEN LET flow == RMul(fcf, RPow(RAdd(One, growth_rate), first))
       IN RDiv(flow, RPow(RAdd(One, discount_rate), first))
  ELSE LET mid == (first + final) \div 2
       IN RAdd(future_flows_sum(fcf, growth_rate, discount_rate, first, mid),
               future_flows_sum(fcf, growth_rate, discount_rate, mid + 1, final))

\* The divisions that fail: the one of line 88 when 1 + discount_rate is 0, the
\* one of line 90 when discount_rate equals terminal_rate
dcf_divides_by_zero(discount_rate, terminal_rate) ==
  RAdd(One, discount_rate) = Zero \/ RSub(discount_rate, terminal_rate) = Zero

\* lines 83-92
calculate_dcf(fcf, growth_rate, discount_rate, terminal_rate, years) ==
  IF RLeq(fcf, Zero) THEN Returned(Zero)
  ELSE IF dcf_divides_by_zero(discount_rate, terminal_rate) THEN Raised("ZeroDivisionError")
  ELSE LET terminal_val ==
             RDiv(RMul(RMul(fcf, RPow(RAdd(One, growth_rate), years)),
                       RAdd(One, terminal_rate)),
                  RSub(discount_rate, terminal_rate))
           discounted_terminal == RDiv(terminal_val, RPow(RAdd(One, discount_rate), years))
       IN Returned(RAdd(future_flows_sum(fcf, growth_rate, discount_rate, 1, years),
                        discounted_terminal))

\* largest free cash flow drawn
MaxFcf == 3

\* free cash flows: negative, zero and positive
DcfFcfs == { Rat(n, 1) : n \in {-100, -1} \cup 0..MaxFcf }

\* growth rates in [0, 1]
DcfGrowthRates == { Rat(0, 1), Rat(1, 2), Rat(1, 1) }

\* discount rates in [0, 1]: below, at and above the terminal rate
DcfDiscountRates == { Rat(0, 1), TERMINAL_RATE, Rat(1, 2), Rat(1, 1) }

DcfIdle == [fcf |-> Zero, growth_rate |-> Zero, discount_rate |-> Zero]

(***************************************************************************)
(* 5. st.cache_data(ttl=3600) (lines 120, 174, 253).                       *)
(*                                                                         *)
(* The decorator is Streamlit's: a call looks its arguments up; an entry   *)
(* younger than the TTL is returned without running the body; otherwise    *)
(* the body runs and, if it returns, its value replaces the entry with a   *)
(* fresh timestamp. An exception of the body propagates and stores nothing.*)
(* A store is a dict: a function whose domain is the keys stored so far.   *)
(***************************************************************************)
TTL == 3600

\* Python's None, and a value that is not None
PyNone == << >>

Some(v) == <<v>>

Truthy(opt) == opt # PyNone /\ opt[1] # 0

Put(store, key, value) ==
  [k \in DOMAIN store \cup {key} |-> IF k = key THEN value ELSE store[k]]

EmptyStore == [k \in {} |-> PyNone]

\* An entry is served until now reaches created + ttl
Live_through_ttl(store, key, t) == key \in DOMAIN store /\ t <= store[key].created + TTL

Live(store, key, t) == key \in DOMAIN store /\ t < store[key].created + TTL

\* What a body ends with
Return(v) == [outcome |-> "returned", value |-> v]

Raise(e) == [outcome |-> e, value |-> PyNone]

\* The end of a call that ran the body: what the body ended with, at time t
Computed(store, key, t, body) ==
  [hit |-> FALSE, outcome |-> body.outcome, value |-> body.value,
   store |-> IF body.outcome = "returned"
             THEN Put(store, key, [value |-> body.value, created |-> t])
             ELSE store]

\* The decorated call at time t; body is what the body would end with
CachedCall(store, key, t, body) ==
  IF Live(store, key, t)
  THEN [hit |-> TRUE, outcome |-> "returned", value |-> store[key].value, store |-> store]
  ELSE Computed(store, key, t, body)

(***************************************************************************)
(* 6. fetch_akshare_data (lines 174-247) and fetch_main_stock_data         *)
(*    (lines 253-319).                                                     *)
(*                                                                         *)
(* What a provider answers is the environment's choice. Of the tuple       *)
(* (info, biz, df_hist, display_name) the model keeps info, with its price *)
(* and market capitalisation, and the provider it came from.               *)
(***************************************************************************)
\* prices and capitalisations a provider may report; PyNone is a missing value
OptPrices == {PyNone, Some(0), Some(5)}

OptCaps == {PyNone, Some(9)}

Info(price, cap) == [regularMarketPrice |-> price, marketCap |-> cap]

\* AkShare: a request fails (or a table is empty, line 197), or the tables arrive;
\* without a spot-price row the price and the capitalisation are None (line 234)
AkAnswers ==
  {[error |-> TRUE, info |-> PyNone]}
    \cup { [error |-> FALSE, info |-> Some(Info(p, c))] : p \in OptPrices, c \in OptCaps }

\* yfinance: a request fails, or stock.info is empty, or it is a dict
YfAnswers ==
  {[error |-> TRUE, info |-> PyNone], [error |-> FALSE, info |-> PyNone]}
    \cup { [error |-> FALSE, info |-> Some(Info(p, c))] : p \in OptPrices, c \in OptCaps }

\* lines 175-247. requested: whether an AkShare request was sent (line 189)
fetch_akshare_data(symbol, answer) ==
  IF ~ak THEN Raise("ConnectionError") @@ [requested |-> FALSE]
  ELSE IF EndsWith(symbol, HK) THEN Raise("NotImplementedError") @@ [requested |-> FALSE]
  ELSE IF answer.error THEN Return(PyNone) @@ [requested |-> TRUE]
  ELSE Return(answer.info) @@ [requested |-> TRUE]

\* A test that leaves the Hong Kong suffix out
is_domestic_without_hk(symbol) == EndsWith(symbol, SS) \/ EndsWith(symbol, SZ)

\* line 258
is_domestic(symbol) == EndsWith(symbol, SS) \/ EndsWith(symbol, SZ) \/ EndsWith(symbol, HK)

\* The result (None, None, None, symbol) of lines 247 and 319
Unresolved == [info |-> PyNone, source |-> "none"]

\* What the body learnt from one provider
Tried(provider, outcome, info, requested) ==
  [provider |-> provider, outcome |-> outcome, info |-> info, requested |-> requested]

\* lines 281-319: the yfinance fallback
yfinance_fallback(answer) ==
  IF ~answer.error /\ answer.info # PyNone /\ answer.info[1].regularMarketPrice # PyNone
  THEN [info |-> answer.info, source |-> "yfinance"]
  ELSE Unresolved

\* A body that goes on to yfinance whatever AkShare returned
fetch_main_stock_data_always_yfinance(symbol, akcall, answer) ==
  LET tried_ak == Tried("akshare", akcall.outcome, akcall.value, akcall.requested)
      tried_yf == Tried("yfinance", IF answer.error THEN "Exception" ELSE "returned",
                        answer.info, TRUE)
  IN [value |-> yfinance_fallback(answer),
      trace |-> IF is_domestic(symbol) /\ ak THEN <<tried_ak, tried_yf>> ELSE <<tried_yf>>]

\* lines 254-319. akcall is what the call of line 273 ended with (read only when
\* that line is reached). trace lists the providers the body called, in order.
fetch_main_stock_data(symbol, akcall, answer) ==
  LET tried_ak == Tried("akshare", akcall.outcome, akcall.value, akcall.requested)
      tried_yf == Tried("yfinance", IF answer.error THEN "Exception" ELSE "returned",
                        answer.info, TRUE)
  IN IF is_domestic(symbol) /\ ak
     THEN IF /\ akcall.outcome = "returned"
             /\ akcall.value # PyNone
             /\ Truthy(akcall.value[1].regularMarketPrice)
          THEN [value |-> [info |-> akcall.value, source |-> "akshare"],
                trace |-> <<tried_ak>>]
          ELSE [value |-> yfinance_fallback(answer), trace |-> <<tried_ak, tried_yf>>]
     ELSE [value |-> yfinance_fallback(answer), trace |-> <<tried_yf>>]

(***************************************************************************)
(* 7. fetch_hunter_data_concurrent (lines 120-156).                        *)
(*                                                                         *)
(* Of a row the model keeps the symbol, the price and the capitalisation,  *)
(* and the growth rate handed to calculate_dcf at line 142. The valuation  *)
(* columns are left out: of calculate_dcf the row needs only whether it    *)
(* raises.                                                                 *)
(***************************************************************************)
\* line 152: ThreadPoolExecutor(max_workers=10)
MAX_WORKERS == 10

\* line 122
ADR_FIX(symbol) ==
  CASE symbol = <<"P","D","D">> -> Rat(29, 4)
    [] symbol = <<"B","A","B","A">> -> Rat(29, 4)
    [] symbol = <<"T","S","M">> -> Rat(65, 2)
    [] OTHER -> One

\* x or d, for a number x that may be None
OrElse(opt, d) == IF opt = PyNone \/ opt[1] = Zero THEN d ELSE opt[1]

\* line 141
growth_of(info) == RMin(RMax(OrElse(info.earningsGrowth, Rat(1, 20)), Rat(1, 50)), Rat(1, 4))

\* lines 134-140
fcf_usd_of(symbol, info) ==
  LET op == OrElse(info.operatingCashflow, Zero)
      cap == OrElse(info.capitalExpenditures, Zero)
      fcf == IF info.freeCashflow # PyNone THEN info.freeCashflow[1]
             ELSE IF RLeq(cap, Zero) /\ cap # Zero THEN RAdd(op, cap) ELSE RSub(op, cap)
  IN RDiv(fcf, ADR_FIX(symbol))

\* lines 123-150. answer is what yfinance answers; outcome tells how the call
\* ended: "skipped" at line 126, "raised" in the except of line 150, or "row"
fetch_one(raw_sym, discount_rate, answer) ==
  LET symbol == smart_parse_symbol(raw_sym)
      info == answer.info[1]
      none == [outcome |-> "raised", row |-> PyNone]
  IN IF symbol \notin Keys(STOCK_MAP) /\ ~is_domestic(symbol)
     THEN [outcome |-> "skipped", row |-> PyNone]
     ELSE IF answer.error THEN none
     ELSE IF /\ ~RLeq(fcf_usd_of(symbol, info), Zero)
             /\ dcf_divides_by_zero(Rat(discount_rate, 100), TERMINAL_RATE)
          THEN none                         \* ZeroDivisionError, line 142
     ELSE IF info.marketCap = PyNone THEN none       \* TypeError, line 143
     ELSE IF info.currentPrice = PyNone THEN none    \* TypeError, line 146
     ELSE [outcome |-> "row",
           row |-> Some([symbol |-> symbol, price |-> info.currentPrice[1],
                         marketCap |-> info.marketCap[1], growth |-> growth_of(info)])]

\* The loop of lines 154-155 appending every result
snapshot_of_every_result(results) == [i \in DOMAIN results |-> results[i].row]

\* The rows collected from the last result to the first
snapshot_of_last_first(results) ==
  LET kept == SelectSeq(results, LAMBDA r : r.row # PyNone)
  IN [i \in DOMAIN kept |-> kept[Len(kept) + 1 - i].row[1]]

\* lines 151-156: the results in the order of the tickers, the None ones dropped
snapshot_of(results) ==
  LET kept == SelectSeq(results, LAMBDA r : r.row # PyNone)
  IN [i \in DOMAIN kept |-> kept[i].row[1]]

HunterInfo(cap, price, fcf, growth) ==
  [marketCap |-> cap, currentPrice |-> price, freeCashflow |-> fcf,
   operatingCashflow |-> PyNone, capitalExpenditures |-> PyNone, earningsGrowth |-> growth]

\* yfinance for one ticker of a batch: the request fails, or the info is complete,
\* or it lacks the capitalisation
HunterAnswers ==
  { [error |-> TRUE, info |-> PyNone],
    [error |-> FALSE, info |-> Some(HunterInfo(Some(9), Some(5), Some(Rat(5, 1)), PyNone))],
    [error |-> FALSE, info |-> Some(HunterInfo(PyNone, Some(5), Some(Rat(5, 1)), PyNone))] }

\* longest list of tickers of a batch
MaxTickers == 2

IBM == <<"I","B","M">>

\* tickers of a batch: one of STOCK_MAP, and one that line 125 turns away
RawTickers == {<<"A","A","P","L">>, IBM}

TickerLists == UNION { [1..n -> RawTickers] : n \in 0..MaxTickers }

\* the discount rate, in percent: the terminal rate, and a rate above it
DiscountRates == {3, 9}

\* No yfinance request was made for the ticker (yet)
NotAsked == [error |-> FALSE, info |-> PyNone]

NoPool == [busy |-> FALSE, tickers |-> << >>, discount_rate |-> 0,
           status |-> << >>, results |-> << >>, asked |-> << >>, finished |-> << >>]

(***************************************************************************)
(* 8. Calls of the cached functions.                                       *)
(***************************************************************************)
\* most top-level calls in one run
MaxOps == 2

\* most clock advances in one run
MaxTicks == 2

AAPL == <<"A","A","P","L">>
TENCENT == <<"0","7","0","0",".","H","K">>
MOUTAI == <<"6","0","0","5","1","9",".","S","S">>

\* the symbols resolved: a Shanghai share, a Hong Kong share, a US share
Symbols == {MOUTAI, TENCENT, AAPL}

\* The record of one call of a cached function: prev is the last run of the body
\* for the same arguments before this call (PyNone if there was none)
Call(fn, key, c, prev, trace) ==
  [fn |-> fn, key |-> key, time |-> now, hit |-> c.hit, outcome |-> c.outcome,
   value |-> c.value, prev |-> prev, trace |-> trace]

RunOf(c) == [time |-> now, outcome |-> c.outcome, value |-> c.value]

PrevRun(fn, key) == IF key \in DOMAIN runs[fn] THEN Some(runs[fn][key]) ELSE PyNone

\* fetch_akshare_data(symbol) through its decorator
AkshareCall(symbol, answer) ==
  LET body == fetch_akshare_data(symbol, answer)
      c == CachedCall(cache_ak, symbol, now, body)
  IN c @@ [requested |-> ~c.hit /\ body.requested,
           call |-> Call("fetch_akshare_data", symbol, c, PrevRun("ak", symbol), << >>),
           runs_ak |-> IF c.hit THEN runs.ak ELSE Put(runs.ak, symbol, RunOf(c))]

\* fetch_main_stock_data(symbol) through its decorator, with the call of
\* fetch_akshare_data its body makes
MainCall(symbol, ak_answer, yf_answer) ==
  LET akcall == AkshareCall(symbol, ak_answer)
      body == fetch_main_stock_data(symbol, akcall, yf_answer)
      c == CachedCall(cache_main, symbol, now, Return(body.value))
      nested == ~c.hit /\ is_domestic(symbol) /\ ak
  IN [value |-> c.value,
      cache_main |-> c.store,
      cache_ak |-> IF nested THEN akcall.store ELSE cache_ak,
      runs |-> [runs EXCEPT !.main = IF c.hit THEN @ ELSE Put(@, symbol, RunOf(c)),
                            !.ak = IF nested THEN akcall.runs_ak ELSE @],
      calls |-> (IF nested THEN <<akcall.call>> ELSE << >>)
                  \o <<Call("fetch_main_stock_data", symbol, c, PrevRun("main", symbol),
                            IF c.hit THEN << >> ELSE body.trace)>>]

(***************************************************************************)
(* 9. The peer-group session cache: MARKET_GROUPS (lines 63-68),           *)
(*    get_peer_group_and_name (93-96), get_stock_basic_info (97-108),      *)
(*    load_peers_data (109-119) and the page script (341-482).             *)
(***************************************************************************)
\* lines 63-68, as the items of the dict, in order
MARKET_GROUPS ==
  <<
    <<"U+1F1FA U+1F1F8 U+7F8E U+80A1 U+79D1 U+6280 (Tech)",
      <<<<"A","A","P","L">>,
       <<"M","S","F","T">>,
       <<"G","O","O","G">>,
       <<"A","M","Z","N">>,
       <<"M","E","T","A">>,
       <<"T","S","L","A">>,
       <<"N","V","D","A">>,
       <<"A","M","D">>,
       <<"T","S","M">>,
       <<"A","S","M","L">>,
       <<"B","A","B","A">>,
       <<"P","D","D">>>> >>,
    <<"U+1F1FA U+1F1F8 U+7F8E U+80A1 U+62A4 U+57CE U+6CB3 (Value)",
      <<<<"B","R","K","-","B">>,
       <<"V">>,
       <<"M","A">>,
       <<"C","O","S","T">>,
       <<"J","P","M">>,
       <<"J","N","J">>,
       <<"P","G">>,
       <<"X","O","M">>,
       <<"K","O">>,
       <<"P","E","P">>,
       <<"M","C","D">>,
       <<"L","L","Y">>,
       <<"U","N","H">>>> >>,
    <<"U+1F1ED U+1F1F0 U+6E2F U+80A1 U+6838 U+5FC3 (Core)",
      <<<<"0","7","0","0",".","H","K">>,
       <<"9","9","8","8",".","H","K">>,
       <<"3","6","9","0",".","H","K">>,
       <<"0","3","8","8",".","H","K">>,
       <<"0","9","4","1",".","H","K">>,
       <<"0","8","8","3",".","H","K">>,
       <<"1","8","1","0",".","H","K">>,
       <<"1","0","2","4",".","H","K">>,
       <<"1","2","9","9",".","H","K">>,
       <<"0","0","0","5",".","H","K">>>> >>,
    <<"U+1F1E8 U+1F1F3 A U+80A1 U+6838 U+5FC3 (Core)",
      <<<<"6","0","0","5","1","9",".","S","S">>,
       <<"0","0","0","8","5","8",".","S","Z">>,
       <<"6","0","0","9","0","0",".","S","S">>,
       <<"3","0","0","7","5","0",".","S","Z">>,
       <<"6","0","0","0","3","6",".","S","S">>,
       <<"6","0","1","3","1","8",".","S","S">>,
       <<"6","0","0","1","8","8",".","S","S">>,
       <<"6","0","1","0","8","8",".","S","S">>,
       <<"6","0","0","8","8","7",".","S","S">>,
       <<"6","0","0","5","8","5",".","S","S">>,
       <<"0","0","2","7","1","4",".","S","Z">>,
       <<"6","0","0","0","3","0",".","S","S">>,
       <<"0","0","2","5","9","4",".","S","Z">>,
       <<"3","0","0","7","6","0",".","S","Z">>,
       <<"3","0","0","5","0","2",".","S","Z">>,
       <<"6","0","0","5","8","0",".","S","S">>,
       <<"6","0","0","2","7","6",".","S","S">>>> >>
  >>

GroupNames == { MARKET_GROUPS[i][1] : i \in DOMAIN MARKET_GROUPS }

\* lines 93-96: the first group that lists the symbol, or (None, None)
get_peer_group_and_name(symbol) ==
  LET holds(i) == \E j \in DOMAIN MARKET_GROUPS[i][2] : MARKET_GROUPS[i][2][j] = symbol
  IN IF \E i \in DOMAIN MARKET_GROUPS : holds(i)
     THEN LET first == CHOOSE i \in DOMAIN MARKET_GROUPS :
                         holds(i) /\ \A j \in 1..(i - 1) : ~holds(j)
          IN Some([group_name |-> MARKET_GROUPS[first][1],
                   target_group |-> MARKET_GROUPS[first][2]])
     ELSE PyNone

\* "x or 0" of lines 103-105
OrZero(opt) == IF opt = PyNone THEN 0 ELSE opt[1]

\* what yfinance answers for one peer: an exception, or the figures it has (the
\* capitalisation in units of 1e9, the two ratios in percent)
PeerAnswers ==
  { [error |-> TRUE, marketCap |-> PyNone, grossMargins |-> PyNone, revenueGrowth |-> PyNone],
    [error |-> FALSE, marketCap |-> PyNone, grossMargins |-> PyNone, revenueGrowth |-> PyNone],
    [error |-> FALSE, marketCap |-> Some(9), grossMargins |-> Some(40),
     revenueGrowth |-> Some(7)] }

\* lines 97-108: the row of one peer, or None. A symbol outside STOCK_MAP is shown
\* under its shortName, which the model takes to be the symbol.
get_stock_basic_info(symbol, answer) ==
  IF answer.error THEN PyNone
  ELSE Some([name |-> IF symbol \in Keys(STOCK_MAP)
                      THEN STOCK_MAP[Lookup(STOCK_MAP, symbol)][2] ELSE symbol,
             marketCap_B |-> OrZero(answer.marketCap),
             grossMargins_pct |-> OrZero(answer.grossMargins),
             revenueGrowth_pct |-> OrZero(answer.revenueGrowth)])

\* line 110: target_group[:10]
SAFE_GROUP_SIZE == 10

Min(a, b) == IF a <= b THEN a ELSE b

\* lines 110-116: the rows of the first ten tickers of the group, the None ones dropped
peers_data_of(target_group, answers) ==
  LET safe_group == SubSeq(target_group, 1, Min(SAFE_GROUP_SIZE, Len(target_group)))
      results == [i \in DOMAIN safe_group |-> get_stock_basic_info(safe_group[i], answers[i])]
      kept == SelectSeq(results, LAMBDA res : res # PyNone)
  IN [i \in DOMAIN kept |-> kept[i][1]]

\* A load that starts the dict afresh with the one group
load_peers_data_fresh_dict(state, group_name, target_group, answers) ==
  IF "peers_data_cache" \notin DOMAIN state
  THEN [outcome |-> "AttributeError", state |-> state]
  ELSE [outcome |-> "rerun",
        state |-> ("current_peer_group" :> group_name)
                    @@ ("peers_data_cache" :>
                          (group_name :> peers_data_of(target_group, answers)))
                    @@ state]

\* lines 109-119. Line 117 reads the attribute peers_data_cache of the session state
\* and raises AttributeError when it was never set; otherwise the entry of the group
\* is replaced, line 118 notes the group, and line 119 asks for a rerun.
load_peers_data(state, group_name, target_group, answers) ==
  IF "peers_data_cache" \notin DOMAIN state
  THEN [outcome |-> "AttributeError", state |-> state]
  ELSE [outcome |-> "rerun",
        state |-> ("current_peer_group" :> group_name)
                    @@ ("peers_data_cache" :>
                          Put(state.peers_data_cache, group_name,
                              peers_data_of(target_group, answers)))
                    @@ state]

\* The session state of a new session: no attribute is set
NewSessionState == [k \in {} |-> PyNone]

\* The session state after the start-up code that sets peers_data_cache to {}
InitialisedSessionState == "peers_data_cache" :> EmptyStore

\* What a run of the script leaves: the view shown, the calls made, the stores
Shown(view, group, loaded, state, m) ==
  [view |-> view, group |-> group, loaded |-> loaded, state |-> state,
   cache_main |-> m.cache_main, cache_ak |-> m.cache_ak, runs |-> m.runs, calls |-> m.calls]

\* The call of line 366 in the run that st.rerun() starts: the entry stored a
\* moment ago is served
RerunCall(symbol, m) ==
  [fn |-> "fetch_main_stock_data", key |-> symbol, time |-> now, hit |-> TRUE,
   outcome |-> "returned", value |-> m.value, prev |-> Some(m.runs.main[symbol]),
   trace |-> << >>]

\* lines 341-482, one run of the script. mode: the radio of line 346; raw_input: the
\* text input of line 352; clicked: whether the run was started by the button of
\* line 477; cap_is_none: whether info holds the key 'marketCap' with the value None
\* (line 382 then divides None) or lacks it; the answers are the providers'.
PageScript(state, mode, raw_input, clicked, ak_answer, yf_answer, cap_is_none, answers) ==
  LET symbol == smart_parse_symbol(Strip(raw_input))
      m == MainCall(symbol, ak_answer, yf_answer)
      idle == [cache_main |-> cache_main, cache_ak |-> cache_ak, runs |-> runs,
               calls |-> << >>]
      info == m.value.info
      peer == get_peer_group_and_name(symbol)
      group == IF peer = PyNone THEN PyNone ELSE Some(peer[1].group_name)
  IN IF mode = "A" THEN Shown("placeholder", PyNone, PyNone, state, idle)
     ELSE IF info = PyNone THEN Shown("error", PyNone, PyNone, state, m)
     ELSE IF info[1].marketCap = PyNone /\ cap_is_none
          THEN Shown("TypeError", group, PyNone, state, m)
     ELSE IF peer = PyNone THEN Shown("no_group", PyNone, PyNone, state, m)
     ELSE IF "peers_data_cache" \notin DOMAIN state
          THEN Shown("AttributeError", group, PyNone, state, m)
     ELSE IF peer[1].group_name \in DOMAIN state.peers_data_cache
          THEN Shown("chart", group, PyNone, state, m)
     ELSE IF ~clicked THEN Shown("button", group, PyNone, state, m)
     ELSE LET l == load_peers_data(state, peer[1].group_name, peer[1].target_group, answers)
          IN Shown("chart", group, group, l.state,
                   [m EXCEPT !.calls = Append(@, RerunCall(symbol, m))])

harnessvars == <<parsed, dcf_in, dcf_out>>

sessionvars == <<session_state, page>>

cachevars == <<cache_main, cache_ak, cache_hunter>>

appvars == <<ak, now, ops, cache_main, cache_ak, cache_hunter, pool, runs, last>>

vars == <<parsed, dcf_in, dcf_out, ak, now, ops, cache_main, cache_ak, cache_hunter, pool,
          runs, last, session_state, page>>

\* The state after import: "ak" is the module or None (lines 21-24), nothing is cached
InitApp ==
  /\ ak \in BOOLEAN
  /\ now = 0
  /\ ops = 0
  /\ cache_main = EmptyStore
  /\ cache_ak = EmptyStore
  /\ cache_hunter = EmptyStore
  /\ pool = NoPool
  /\ runs = [main |-> EmptyStore, ak |-> EmptyStore, hunter |-> EmptyStore]
  /\ last = << >>

\* No run of the page script yet; line 352: the text input starts as "600276.SS"
NoPage ==
  [mode |-> "B", raw_input |-> <<"6","0","0","2","7","6",".","S","S">>, view |-> "none",
   group |-> PyNone, loaded |-> PyNone, op |-> 0]

\* No browser session
NoSession ==
  /\ session_state = NewSessionState
  /\ page = NoPage

\* Time passes: the clock advances by step, up to limit
Advance(step, limit) ==
  /\ now < limit
  /\ now' = now + step
  /\ UNCHANGED <<ak, ops, cachevars, pool, runs, last, harnessvars, sessionvars>>

\* A call fetch_main_stock_data(symbol), one of at most budget operations
FetchMain(budget, symbols, ak_answers, yf_answers) ==
  /\ ops < budget
  /\ ~pool.busy
  /\ \E symbol \in symbols, ak_answer \in ak_answers, yf_answer \in yf_answers :
       LET m == MainCall(symbol, ak_answer, yf_answer)
       IN /\ cache_main' = m.cache_main
          /\ cache_ak' = m.cache_ak
          /\ runs' = m.runs
          /\ last' = m.calls
  /\ ops' = ops + 1
  /\ UNCHANGED <<ak, now, cache_hunter, pool, harnessvars, sessionvars>>

\* A call fetch_akshare_data(symbol)
FetchAkshare(budget, symbols, ak_answers) ==
  /\ ops < budget
  /\ ~pool.busy
  /\ \E symbol \in symbols, ak_answer \in ak_answers :
       LET a == AkshareCall(symbol, ak_answer)
       IN /\ cache_ak' = a.store
          /\ runs' = [runs EXCEPT !.ak = a.runs_ak]
          /\ last' = <<a.call>>
  /\ ops' = ops + 1
  /\ UNCHANGED <<ak, now, cache_main, cache_hunter, pool, harnessvars, sessionvars>>

\* A call fetch_hunter_data_concurrent(tickers, discount_rate) that finds its
\* arguments in the store
HunterHit(budget, ticker_lists, discount_rates) ==
  /\ ops < budget
  /\ ~pool.busy
  /\ \E tickers \in ticker_lists, discount_rate \in discount_rates :
       LET key == <<tickers, discount_rate>>
       IN /\ Live(cache_hunter, key, now)
          /\ last' = <<Call("fetch_hunter_data_concurrent", key,
                            CachedCall(cache_hunter, key, now, Return(<< >>)),
                            PrevRun("hunter", key), << >>)>>
  /\ ops' = ops + 1
  /\ UNCHANGED <<ak, now, cachevars, pool, runs, harnessvars, sessionvars>>

\* A call that does not: the body starts, and executor.map (line 153) queues one
\* fetch_one per ticker
HunterMiss(budget, ticker_lists, discount_rates) ==
  /\ ops < budget
  /\ ~pool.busy
  /\ \E tickers \in ticker_lists, discount_rate \in discount_rates :
       /\ ~Live(cache_hunter, <<tickers, discount_rate>>, now)
       /\ pool' = [busy |-> TRUE, tickers |-> tickers, discount_rate |-> discount_rate,
                   status |-> [i \in DOMAIN tickers |-> "queued"],
                   results |-> [i \in DOMAIN tickers |-> [outcome |-> "none", row |-> PyNone]],
                   asked |-> [i \in DOMAIN tickers |-> NotAsked],
                   finished |-> << >>]
  /\ ops' = ops + 1
  /\ last' = << >>
  /\ UNCHANGED <<ak, now, cachevars, runs, harnessvars, sessionvars>>

\* A worker thread takes the oldest queued fetch_one; at most MAX_WORKERS run
WorkerStart ==
  /\ pool.busy
  /\ Cardinality({ j \in DOMAIN pool.status : pool.status[j] = "running" }) < MAX_WORKERS
  /\ \E i \in DOMAIN pool.status :
       /\ pool.status[i] = "queued"
       /\ \A j \in 1..(i - 1) : pool.status[j] # "queued"
       /\ pool' = [pool EXCEPT !.status[i] = "running"]
  /\ UNCHANGED <<ak, now, ops, cachevars, runs, last, harnessvars, sessionvars>>

\* A running fetch_one ends. asked keeps what yfinance answered at line 129, for
\* the tickers line 126 did not turn away.
WorkerFinish(answers) ==
  /\ pool.busy
  /\ \E i \in DOMAIN pool.status, answer \in answers :
       LET r == fetch_one(pool.tickers[i], pool.discount_rate, answer)
       IN /\ pool.status[i] = "running"
          /\ pool' = [pool EXCEPT !.status[i] = "done",
                                  !.results[i] = r,
                                  !.asked[i] = IF r.outcome = "skipped" THEN NotAsked
                                               ELSE answer,
                                  !.finished = Append(@, i)]
  /\ UNCHANGED <<ak, now, ops, cachevars, runs, last, harnessvars, sessionvars>>

\* The with block of line 152 has waited for every worker: lines 154-156 build the
\* table, and the decorator stores it. The trace of the call lists how each
\* fetch_one ended.
HunterReturn ==
  /\ pool.busy
  /\ \A i \in DOMAIN pool.status : pool.status[i] = "done"
  /\ LET key == <<pool.tickers, pool.discount_rate>>
         c == Computed(cache_hunter, key, now, Return(snapshot_of(pool.results)))
     IN /\ cache_hunter' = c.store
        /\ runs' = [runs EXCEPT !.hunter = Put(@, key, RunOf(c))]
        /\ last' = <<Call("fetch_hunter_data_concurrent", key, c, PrevRun("hunter", key),
                          [i \in DOMAIN pool.results |-> pool.results[i].outcome])
                       @@ [finished |-> pool.finished, asked |-> pool.asked]>>
  /\ pool' = NoPool
  /\ UNCHANGED <<ak, now, ops, cache_main, cache_ak, harnessvars, sessionvars>>

Tick == Advance(TTL \div 2, MaxTicks * (TTL \div 2))

FetchMainCall == FetchMain(MaxOps, Symbols, AkAnswers, YfAnswers)

FetchAkshareCall == FetchAkshare(MaxOps, Symbols, AkAnswers)

HunterCallHit == HunterHit(MaxOps, TickerLists, DiscountRates)

HunterCallMiss == HunterMiss(MaxOps, TickerLists, DiscountRates)

WorkerFinishCall == WorkerFinish(HunterAnswers)

Next ==
  \/ Tick
  \/ FetchMainCall
  \/ FetchAkshareCall
  \/ HunterCallHit
  \/ HunterCallMiss
  \/ WorkerStart
  \/ WorkerFinishCall
  \/ HunterReturn

(***************************************************************************)
(* The harness of smart_parse_symbol: an input is drawn, and the function  *)
(* is applied to its own result.                                           *)
(***************************************************************************)
\* The application as it is after import, with AkShare loaded
AppIdle == InitApp /\ ak = TRUE /\ NoSession

InitParse ==
  /\ parsed \in { <<x>> : x \in ParseInputs }
  /\ dcf_in = DcfIdle
  /\ dcf_out = NotCalled
  /\ AppIdle

\* symbol = smart_parse_symbol(raw_input), on the last result
ApplyParse ==
  /\ Len(parsed) <= MaxApply
  /\ parsed' = Append(parsed, smart_parse_symbol(parsed[Len(parsed)]))
  /\ UNCHANGED <<dcf_in, dcf_out>>
  /\ UNCHANGED appvars
  /\ UNCHANGED sessionvars

SpecParse == InitParse /\ [][ApplyParse]_vars

(***************************************************************************)
(* The harness of calculate_dcf: the arguments are drawn, the function is  *)
(* called once with the defaults of its signature.                         *)
(***************************************************************************)
InitDcf ==
  /\ parsed = << << >> >>
  /\ dcf_in \in [fcf : DcfFcfs, growth_rate : DcfGrowthRates, discount_rate : DcfDiscountRates]
  /\ dcf_out = NotCalled
  /\ AppIdle

ApplyDcf ==
  /\ dcf_out = NotCalled
  /\ dcf_out' = calculate_dcf(dcf_in.fcf, dcf_in.growth_rate, dcf_in.discount_rate,
                              TERMINAL_RATE, YEARS)
  /\ UNCHANGED <<parsed, dcf_in>>
  /\ UNCHANGED appvars
  /\ UNCHANGED sessionvars

SpecDcf == InitDcf /\ [][ApplyDcf]_vars

(***************************************************************************)
(* The application: calls of the cached functions, and the clock.          *)
(***************************************************************************)
Init ==
  /\ parsed = << << >> >>
  /\ dcf_in = DcfIdle
  /\ dcf_out = NotCalled
  /\ InitApp
  /\ NoSession

Spec == Init /\ [][Next]_vars

(***************************************************************************)
(* A browser session: runs of the page script and clicks of the button of  *)
(* line 477, among direct calls of the cached functions and the clock.     *)
(***************************************************************************)
\* most operations in one session
MaxSessionOps == 4

\* most clock advances in one session, of a whole TTL each
MaxSessionTicks == 1

\* of the peers of a group, how many may fail or lack figures (the others answer
\* in full)
MaxPeerVaried == 1

\* the inputs typed: a US share of the Tech group, a Hong Kong code of the Core group
PageInputs == {AAPL, <<"0","0","7","0","0">>}

SessionAkAnswers == {[error |-> TRUE, info |-> PyNone]}

SessionYfAnswers ==
  {[error |-> TRUE, info |-> PyNone]}
    \cup { [error |-> FALSE, info |-> Some(Info(Some(5), c))] : c \in OptCaps }

PeerAnswerVectors ==
  { [i \in 1..SAFE_GROUP_SIZE |->
       IF i <= MaxPeerVaried THEN f[i]
       ELSE [error |-> FALSE, marketCap |-> Some(9), grossMargins |-> Some(40),
             revenueGrowth |-> Some(7)]] :
    f \in [1..MaxPeerVaried -> PeerAnswers] }

\* an info without a capitalisation either lacks the key or holds None under it
CapIsNone(answer) ==
  IF answer.info # PyNone /\ answer.info[1].marketCap = PyNone THEN BOOLEAN ELSE {FALSE}

\* what a run of the script leaves in the state
Render(s, mode, raw_input) ==
  /\ session_state' = s.state
  /\ page' = [mode |-> mode, raw_input |-> raw_input, view |-> s.view, group |-> s.group,
              loaded |-> s.loaded, op |-> ops + 1]
  /\ cache_main' = s.cache_main
  /\ cache_ak' = s.cache_ak
  /\ runs' = s.runs
  /\ last' = s.calls
  /\ ops' = ops + 1
  /\ UNCHANGED <<ak, now, cache_hunter, pool, harnessvars>>

\* the answers of a run that loads no peers
NoPeerAnswers == [i \in 1..SAFE_GROUP_SIZE |-> [error |-> TRUE, marketCap |-> PyNone,
                                               grossMargins |-> PyNone,
                                               revenueGrowth |-> PyNone]]

\* The user picks mode A (the input keeps its text), or types an input in mode B:
\* the script runs (lines 341-482)
PageRun ==
  /\ ops < MaxSessionOps
  /\ ~pool.busy
  /\ \/ Render(PageScript(session_state, "A", page.raw_input, FALSE,
                          [error |-> TRUE, info |-> PyNone], [error |-> TRUE, info |-> PyNone],
                          FALSE, NoPeerAnswers), "A", page.raw_input)
     \/ \E raw_input \in PageInputs, ak_answer \in SessionAkAnswers,
           yf_answer \in SessionYfAnswers :
          \E cap_is_none \in CapIsNone(yf_answer) :
          Render(PageScript(session_state, "B", raw_input, FALSE, ak_answer, yf_answer,
                            cap_is_none, NoPeerAnswers), "B", raw_input)

\* The user clicks the button of line 477: the script runs with the same input,
\* st.button returns True, load_peers_data runs and line 119 reruns the script
PageClick ==
  /\ ops < MaxSessionOps
  /\ ~pool.busy
  /\ page.view = "button"
  /\ \E ak_answer \in SessionAkAnswers, yf_answer \in SessionYfAnswers,
        answers \in PeerAnswerVectors :
      \E cap_is_none \in CapIsNone(yf_answer) :
       Render(PageScript(session_state, page.mode, page.raw_input, TRUE, ak_answer,
                         yf_answer, cap_is_none, answers), page.mode, page.raw_input)

SessionTick == Advance(TTL, MaxSessionTicks * TTL)

SessionFetchMainCall == FetchMain(MaxSessionOps, {AAPL}, SessionAkAnswers, SessionYfAnswers)

SessionHunterCallHit == HunterHit(MaxSessionOps, {<<AAPL>>}, {9})

SessionHunterCallMiss == HunterMiss(MaxSessionOps, {<<AAPL>>}, {9})

InitSession ==
  /\ parsed = << << >> >>
  /\ dcf_in = DcfIdle
  /\ dcf_out = NotCalled
  /\ InitApp
  /\ ak = TRUE
  /\ session_state \in {NewSessionState, InitialisedSessionState}
  /\ page = NoPage

NextSession ==
  \/ SessionTick
  \/ PageRun
  \/ PageClick
  \/ SessionFetchMainCall
  \/ SessionHunterCallHit
  \/ SessionHunterCallMiss
  \/ WorkerStart
  \/ WorkerFinishCall
  \/ HunterReturn

SpecSession == InitSession /\ [][NextSession]_vars

(***************************************************************************)
(* A screening: calls of fetch_hunter_data_concurrent on lists of tickers  *)
(* that all reach yfinance, which answers with or without an estimate of   *)
(* the earnings growth.                                                    *)
(***************************************************************************)
\* most calls of fetch_hunter_data_concurrent in one screening
MaxBatchOps == 2

\* longest list of tickers of a screening
MaxBatch == 2

KO == <<"K","O">>

\* tickers screened: one of the Tech group, one of the Value group
BatchTickers == {AAPL, KO}

BatchLists == UNION { [1..n -> BatchTickers] : n \in 1..MaxBatch }

\* info.get('earningsGrowth'): None, zero, below 0.02, within [0.02, 0.25], above 0.25
EarningsGrowths == {PyNone, Some(Zero), Some(Rat(-1, 10)), Some(Rat(1, 10)), Some(Rat(1, 2))}

\* yfinance for one ticker of a screening: the request fails, or the info is
\* complete but for the estimate, which varies
GrowthAnswers ==
  {[error |-> TRUE, info |-> PyNone]}
    \cup { [error |-> FALSE, info |-> Some(HunterInfo(Some(9), Some(5), Some(Rat(5, 1)), g))] :
            g \in EarningsGrowths }

BatchCallHit == HunterHit(MaxBatchOps, BatchLists, {9})

BatchCallMiss == HunterMiss(MaxBatchOps, BatchLists, {9})

BatchWorkerFinish == WorkerFinish(GrowthAnswers)

InitHunter == Init /\ ak = TRUE

NextHunter ==
  \/ BatchCallHit
  \/ BatchCallMiss
  \/ WorkerStart
  \/ BatchWorkerFinish
  \/ HunterReturn

SpecHunter == InitHunter /\ [][NextHunter]_vars

(***************************************************************************)
(* Claims about the peer-group session cache.                              *)
(***************************************************************************)
\* the entry of a group in the session cache, or PyNone
Entry(state, g) ==
  IF "peers_data_cache" \in DOMAIN state /\ g \in DOMAIN state.peers_data_cache
  THEN Some(state.peers_data_cache[g]) ELSE PyNone

\* C9: the entry of a group changes only in a step that runs load_peers_data for
\* that group: every other step (a resolution, a batch, a run of the page, a load
\* of another group, the clock) leaves it as it is, populated or not.
C9_EntryWrittenOnlyByLoad ==
  [][\A g \in GroupNames :
       Entry(session_state', g) # Entry(session_state, g) =>
         (ops' = ops + 1 /\ page'.op = ops' /\ page'.loaded = Some(g))]_vars

\* C9's case: a group was loaded, then the TTL went by and another group was
\* loaded, and the entry of the first group is still there
C9_Witness ==
  \E g \in GroupNames, h \in GroupNames :
    /\ g # h
    /\ Entry(session_state, g) # PyNone
    /\ Entry(session_state, h) # PyNone
    /\ page.loaded = Some(h)
    /\ now >= TTL


(***************************************************************************)
(* Claims about the provider cascade and the caches.                       *)
(***************************************************************************)
\* the calls of the last operation that ran the body of fetch_main_stock_data
MainRuns == { i \in DOMAIN last : last[i].fn = "fetch_main_stock_data" /\ ~last[i].hit }

HasSuffix(symbol, suffix) ==
  Len(symbol) >= 3 /\ [i \in 1..3 |-> symbol[Len(symbol) - 3 + i]] = suffix

DomesticSuffix(symbol) ==
  \/ HasSuffix(symbol, <<".","S","S">>)
  \/ HasSuffix(symbol, <<".","S","Z">>)
  \/ HasSuffix(symbol, <<".","H","K">>)

\* a provider raised, or returned nothing, or returned no price or a price of 0
ProviderFailed(t) ==
  \/ t.outcome # "returned"
  \/ t.info = PyNone
  \/ t.info[1].regularMarketPrice \in {PyNone, Some(0)}

\* C1: the providers are tried one after another in the configured order (AkShare,
\* when it applies, then yfinance); a provider is tried only after every earlier
\* one failed; the result is the snapshot of the last provider tried when that one
\* yields a price, and unresolved only after the whole list was tried: no provider
\* after the winning one is invoked.
C1_FirstValidProviderWins ==
  \A i \in MainRuns :
    LET c == last[i]
        t == c.trace
        order == IF DomesticSuffix(c.key) /\ ak THEN <<"akshare", "yfinance">>
                 ELSE <<"yfinance">>
        final == t[Len(t)]
    IN /\ Len(t) \in 1..Len(order)
       /\ \A j \in DOMAIN t : t[j].provider = order[j]
       /\ \A j \in 1..(Len(t) - 1) : ProviderFailed(t[j])
       /\ ~ProviderFailed(final) => c.value = [info |-> final.info, source |-> final.provider]
       /\ c.value.info # PyNone => c.value = [info |-> final.info, source |-> final.provider]
       /\ c.value.info = PyNone => (Len(t) = Len(order) /\ c.value.source = "none")

\* C1's case: AkShare failed, yfinance was tried next and its snapshot was returned
C1_Witness ==
  \E i \in MainRuns :
    /\ Len(last[i].trace) = 2
    /\ last[i].trace[1].provider = "akshare"
    /\ last[i].trace[1].requested
    /\ ProviderFailed(last[i].trace[1])
    /\ last[i].value.source = "yfinance"
    /\ last[i].value.info = last[i].trace[2].info

Positive(opt) == opt # PyNone /\ opt[1] > 0

\* C2: every snapshot that fetch_main_stock_data returns as resolved has a price and
\* a market capitalisation that are present and strictly positive.
C2_ResolvedHasPriceAndCap ==
  \A i \in DOMAIN last :
    (last[i].fn = "fetch_main_stock_data" /\ last[i].value.info # PyNone) =>
      /\ Positive(last[i].value.info[1].regularMarketPrice)
      /\ Positive(last[i].value.info[1].marketCap)

\* C4: a cache entry is created only by a successful resolution: no entry of
\* fetch_main_stock_data or fetch_akshare_data holds the all-None result.
C4_NoEntryForFailure ==
  /\ \A k \in DOMAIN cache_main : cache_main[k].value.info # PyNone
  /\ \A k \in DOMAIN cache_ak : cache_ak[k].value # PyNone

StoreOf(fn) ==
  CASE fn = "fetch_main_stock_data" -> cache_main
    [] fn = "fetch_akshare_data" -> cache_ak
    [] fn = "fetch_hunter_data_concurrent" -> cache_hunter

\* C5 as stated: a call within the TTL of the last run of the body for the same
\* arguments does not run the body and returns what that run returned; any other
\* call runs the body.
C5_OneRunPerWindow ==
  \A i \in DOMAIN last :
    LET c == last[i]
        within == c.prev # PyNone /\ c.time < c.prev[1].time + TTL
    IN /\ within => (c.hit /\ c.value = c.prev[1].value)
       /\ ~within => ~c.hit

\* C5 as amended: the same, for the last run of the body that returned; a run that
\* raised stores nothing. A call that runs the body and returns replaces the entry,
\* with the time of the call.
C5_OneRunPerWindowOfReturnedRun ==
  \A i \in DOMAIN last :
    LET c == last[i]
        within == /\ c.prev # PyNone
                  /\ c.prev[1].outcome = "returned"
                  /\ c.time < c.prev[1].time + TTL
    IN /\ within => (c.hit /\ c.outcome = "returned" /\ c.value = c.prev[1].value)
       /\ ~within => ~c.hit
       /\ (~c.hit /\ c.outcome = "returned") =>
            (/\ c.key \in DOMAIN StoreOf(c.fn)
             /\ StoreOf(c.fn)[c.key] = [value |-> c.value, created |-> c.time])
       /\ (~c.hit /\ c.outcome # "returned" /\ c.prev = PyNone) =>
            c.key \notin DOMAIN StoreOf(c.fn)

\* C5's case: a second call with the same arguments, later but within the TTL,
\* that is served from the store
C5_Witness ==
  \E i \in DOMAIN last :
    /\ last[i].hit
    /\ last[i].prev # PyNone
    /\ last[i].time > last[i].prev[1].time
    /\ last[i].value = last[i].prev[1].value

\* C10 as stated: for a symbol of the domestic class (.SS, .SZ, .HK) AkShare is
\* tried before yfinance; for any other symbol AkShare is never invoked and
\* yfinance is the only provider tried.
C10_OrderBySymbolClass ==
  \A i \in MainRuns :
    LET c == last[i]
    IN /\ DomesticSuffix(c.key) => c.trace[1].provider = "akshare"
       /\ ~DomesticSuffix(c.key) =>
            (Len(c.trace) = 1 /\ c.trace[1].provider = "yfinance")

\* C10 as amended: the order holds when the AkShare module is loaded; when it is
\* not, AkShare is never invoked, whatever the symbol. For a .HK symbol
\* fetch_akshare_data is called first but sends no AkShare request.
C10_OrderBySymbolClassWhenLoaded ==
  \A i \in MainRuns :
    LET c == last[i]
    IN /\ (DomesticSuffix(c.key) /\ ak) =>
            /\ c.trace[1].provider = "akshare"
            /\ \A j \in DOMAIN c.trace : c.trace[j].provider = "yfinance" => j = 2
       /\ (~DomesticSuffix(c.key) \/ ~ak) =>
            (Len(c.trace) = 1 /\ c.trace[1].provider = "yfinance")
       /\ HasSuffix(c.key, <<".","H","K">>) =>
            \A j \in DOMAIN c.trace : c.trace[j].provider = "akshare" => ~c.trace[j].requested

\* C10's case: a Hong Kong symbol with AkShare loaded: fetch_akshare_data was
\* called first, declined, and yfinance was tried second
C10_Witness ==
  \E i \in MainRuns :
    /\ last[i].key = TENCENT
    /\ Len(last[i].trace) = 2
    /\ last[i].trace[1].provider = "akshare"
    /\ last[i].trace[1].outcome = "NotImplementedError"
    /\ last[i].trace[2].provider = "yfinance"

(***************************************************************************)
(* Claims about the batch fetcher.                                         *)
(***************************************************************************)
\* the calls of the last operation that ran the body of fetch_hunter_data_concurrent
HunterRuns ==
  { i \in DOMAIN last : last[i].fn = "fetch_hunter_data_concurrent" /\ ~last[i].hit }

CountOf(seq, x) == Cardinality({ j \in DOMAIN seq : seq[j] = x })

\* C3 as stated: of N tickers of which K fetches raised, the table has N - K rows,
\* and the call returns.
C3_RowsAreTickersMinusErrors ==
  \A i \in HunterRuns :
    /\ last[i].outcome = "returned"
    /\ Len(last[i].value) = Len(last[i].key[1]) - CountOf(last[i].trace, "raised")

\* a ticker whose symbol is neither a key of STOCK_MAP nor ends in .SS, .SZ or .HK
TurnedAway(ticker) ==
  LET symbol == smart_parse_symbol(ticker)
  IN (\A k \in DOMAIN STOCK_MAP : STOCK_MAP[k][1] # symbol) /\ ~DomesticSuffix(symbol)

\* C3 as amended: the table has N - K - S rows, S being the tickers that are
\* turned away before any fetch (line 125); the call returns, in every interleaving.
C3_RowsAreFetchedMinusErrors ==
  \A i \in HunterRuns :
    LET c == last[i]
        tickers == c.key[1]
        S == Cardinality({ j \in DOMAIN tickers : TurnedAway(tickers[j]) })
    IN /\ c.outcome = "returned"
       /\ Len(c.value) = Len(tickers) - CountOf(c.trace, "raised") - S
       /\ \A j \in DOMAIN tickers : TurnedAway(tickers[j]) <=> c.trace[j] = "skipped"

\* C3's case: two tickers, the second fetch ended first, one fetch raised and the
\* other gave the only row
C3_Witness ==
  \E i \in HunterRuns :
    /\ Len(last[i].key[1]) = 2
    /\ last[i].finished = <<2, 1>>
    /\ last[i].trace = <<"raised", "row">>
    /\ Len(last[i].value) = 1

\* the fetches of the running call that got an info from yfinance and ended with a
\* row: line 141 ran for each of them
FetchedRows ==
  { i \in DOMAIN pool.status : pool.status[i] = "done" /\ pool.results[i].outcome = "row" }

\* min(max(g, 0.02), 0.25)
Clamped(g) == RMin(RMax(g, Rat(1, 50)), Rat(1, 4))

Between(lo, r, hi) == RLeq(lo, r) /\ RLeq(r, hi)

\* the place in MARKET_GROUPS of the first group that lists the symbol, or 0
SegmentOf(symbol) ==
  IF \E i \in DOMAIN MARKET_GROUPS : \E j \in DOMAIN MARKET_GROUPS[i][2] :
          MARKET_GROUPS[i][2][j] = symbol
  THEN CHOOSE i \in DOMAIN MARKET_GROUPS :
         /\ \E j \in DOMAIN MARKET_GROUPS[i][2] : MARKET_GROUPS[i][2][j] = symbol
         /\ \A k \in 1..(i - 1) : \A j \in DOMAIN MARKET_GROUPS[k][2] :
               MARKET_GROUPS[k][2][j] # symbol
  ELSE 0

\* the default rates of the segments: about 12% for Tech, about 6% for Value (each
\* read as within one point), 5% to 8% for the two Core groups; for a symbol of no
\* group, any rate of the range
IsSegmentDefault(symbol, rate) ==
  CASE SegmentOf(symbol) = 1 -> Between(Rat(11, 100), rate, Rat(13, 100))
    [] SegmentOf(symbol) = 2 -> Between(Rat(5, 100), rate, Rat(7, 100))
    [] SegmentOf(symbol) \in {3, 4} -> Between(Rat(5, 100), rate, Rat(8, 100))
    [] OTHER -> Between(Rat(1, 50), rate, Rat(1, 4))

\* C11 as stated: the growth rate fetch_one passes to calculate_dcf is g clamped
\* to [0.02, 0.25] whenever yfinance supplies an earnings-growth estimate g; it is
\* the default of the ticker's market segment when yfinance supplies none; and in
\* every case it lies in [0.02, 0.25].
C11_GrowthClampedOrSegmentDefault ==
  \A i \in FetchedRows :
    LET g == pool.asked[i].info[1].earningsGrowth
        row == pool.results[i].row[1]
    IN /\ g # PyNone => row.growth = Clamped(g[1])
       /\ g = PyNone => IsSegmentDefault(row.symbol, row.growth)
       /\ Between(Rat(1, 50), row.growth, Rat(1, 4))

\* the places, in increasing order, of the tickers of a call whose fetch gave a row
RowPlaces(c) ==
  SelectSeq([j \in DOMAIN c.trace |-> j], LAMBDA j : c.trace[j] = "row")

\* C12: the rows fetch_hunter_data_concurrent returns are in the relative order of
\* their tickers in the input list (the k-th row is the row of the k-th ticker
\* whose fetch gave one, with that ticker's symbol and the rate computed from that
\* ticker's answer), whatever the order in which the workers finished; and the
\* function returns only after every dispatched fetch_one has completed.
C12_RowsInInputOrderAfterAllDone ==
  \A i \in HunterRuns :
    LET c == last[i]
        tickers == c.key[1]
        places == RowPlaces(c)
    IN /\ Len(c.finished) = Len(tickers)
       /\ { c.finished[k] : k \in DOMAIN c.finished } = DOMAIN tickers
       /\ \A j \in DOMAIN c.trace : c.trace[j] # "none"
       /\ Len(c.value) = Len(places)
       /\ \A k \in DOMAIN c.value :
            /\ c.value[k].symbol = smart_parse_symbol(tickers[places[k]])
            /\ c.value[k].growth = growth_of(c.asked[places[k]].info[1])

\* C12's case: two different tickers with different estimates, the fetch of the
\* second ended first, both gave a row, and the table lists the first ticker first
C12_Witness ==
  \E i \in HunterRuns :
    /\ last[i].key[1] = <<AAPL, KO>>
    /\ last[i].finished = <<2, 1>>
    /\ last[i].trace = <<"row", "row">>
    /\ Len(last[i].value) = 2
    /\ last[i].value[1].symbol = AAPL
    /\ last[i].value[2].symbol = KO
    /\ last[i].value[1].growth # last[i].value[2].growth

(***************************************************************************)
(* Claims about smart_parse_symbol.                                        *)
(***************************************************************************)
\* C6: smart_parse_symbol is idempotent on tickers: for every key x of STOCK_MAP
\* and for every x that smart_parse_symbol returns for some input,
\* smart_parse_symbol(smart_parse_symbol(x)) = smart_parse_symbol(x).
C6_IdempotentOnTickers ==
  /\ (Len(parsed) >= 3 /\ parsed[1] \in Keys(STOCK_MAP)) => parsed[3] = parsed[2]
  /\ Len(parsed) >= 4 => parsed[4] = parsed[3]

\* C6's case: "M", which the function returns for "m", is itself rewritten (to
\* META, through the display name "Meta"), and the result is a fixed point
C6_Witness ==
  /\ Len(parsed) >= 4
  /\ parsed[1] = <<"m">>
  /\ parsed[2] = <<"M">>
  /\ parsed[3] = <<"M","E","T","A">>
  /\ parsed[4] = parsed[3]

\* C7: a purely numeric input is never intercepted by the name lookups, and the
\* result is the code plus ".SS" (6 digits, leading '6'), plus ".SZ" (6 digits,
\* leading '0' or '3'), plus ".HK" (4 digits), the code without its first digit
\* plus ".HK" (5 digits, leading '0'), and the input unchanged otherwise.
C7_NumericMapping ==
  LET x == parsed[1]
      n == Len(x)
      numeric == n >= 1 /\ \A i \in 1..n : x[i] \in Digits
      expected ==
        CASE n = 6 /\ x[1] = "6" -> x \o <<".","S","S">>
          [] n = 6 /\ x[1] \in {"0", "3"} -> x \o <<".","S","Z">>
          [] n = 4 -> x \o <<".","H","K">>
          [] n = 5 /\ x[1] = "0" -> [i \in 1..4 |-> x[i + 1]] \o <<".","H","K">>
          [] OTHER -> x
  IN (numeric /\ Len(parsed) >= 2) =>
       /\ parsed[2] = expected
       /\ \A i \in DOMAIN NAME_TO_TICKER :
            x # NAME_TO_TICKER[i][1] /\ ~Contains(NAME_TO_TICKER[i][1], x)

\* C7's case: a five-digit code with a leading zero has been normalised
C7_Witness ==
  /\ Len(parsed) >= 2
  /\ parsed[1] = <<"0","0","3","5","6">>
  /\ parsed[2] = <<"0","3","5","6",".","H","K">>

(***************************************************************************)
(* Claims about calculate_dcf.                                             *)
(***************************************************************************)
\* C8: calculate_dcf raises no error and returns a nonnegative number for every
\* free cash flow and every growth and discount rate in [0, 1], and returns 0
\* whenever the free cash flow is zero or negative.
C8_NonnegativeAndTotal ==
  dcf_out # NotCalled =>
    /\ dcf_out.kind = "value"
    /\ RLeq(Zero, dcf_out.value)
    /\ (RLeq(dcf_in.fcf, Zero) => dcf_out.value = Zero)
====
